---- MODULE Spec2Model ----
(***************************************************************************)
(* Principia-Animatica: the Lorenz right-hand side, the sampling of its    *)
(* solution (ode_solution_points), the font fallback of SCENE_intro and    *)
(* the Lorenz scenes (curves, spheres, ambient camera rotation).           *)
(*                                                                         *)
(* Five specifications share the variables below; each leaves the          *)
(* variables of the others at their initial value.                         *)
(*   SpecLorenz : one call of lorenz_system (both copies)                  *)
(*   SpecOde    : one call of ode_solution_points                          *)
(*   SpecPure   : a caller making several calls in any order               *)
(*   SpecIntro  : SCENE_intro (animatica.py and testing.py)                *)
(*   SpecScene  : the construct() of the two Lorenz scenes                 *)
(***************************************************************************)
EXTENDS Integers, Sequences, FiniteSets, TLC

VARIABLES
    ls_pc, ls_args, ls_out,          \* lorenz_system: position, arguments, results
    ode_pc, ode_args, ode_out,       \* ode_solution_points: position, arguments, result
    heap, log,                       \* a caller: its argument lists, the calls it made
    intro_file, font_env,            \* SCENE_intro: its file, what the font step meets
    intro_pc, intro_next,            \* its position, the later statement it is at
    channel_name, stdout,            \* the channel-name Text, what was printed
    intro_steps,                     \* the later statements executed
    scene, nframes,                  \* a Lorenz scene: its class, the frames of one play
    sc_pc, sc_phase, sc_frame,       \* the statement construct() is at, and where in it
    camera,                          \* phi, theta, gamma, zoom, the ambient rotation
    states, colors, curves, spheres, \* the locals of construct()
    has_updater, on_scene, updated,  \* update_spheres is attached; the spheres are added;
                                     \* update_spheres was the last to run
    events                           \* what construct() has done to camera and curves

ls_vars == <<ls_pc, ls_args, ls_out>>
ode_vars == <<ode_pc, ode_args, ode_out>>
pure_vars == <<heap, log>>
intro_vars == <<intro_file, font_env, intro_pc, intro_next, channel_name, stdout,
                intro_steps>>
scene_vars == <<scene, nframes, sc_pc, sc_phase, sc_frame, camera, states, colors,
                curves, spheres, has_updater, on_scene, updated, events>>
vars == <<ls_vars, ode_vars, pure_vars, intro_vars, scene_vars>>

(***************************************************************************)
(* Bounds of the model.                                                    *)
(***************************************************************************)
\* Significand bits of the binary floating-point format (53 in the program).
Precision == 5
\* Largest duration T enumerated, in time units.
MaxTime == 40
\* Largest number of samples an enumerated (T, dt) may ask for.
MaxSamples == 8
\* Largest absolute coordinate / parameter value enumerated for lorenz_system.
MaxCoord == 2
\* Largest number of calls the caller of SpecPure makes.
MaxCalls == 3
\* Largest number of frames one play or wait of a scene is rendered in.
MaxFrames == 3

(***************************************************************************)
(* lorenz_system                                                           *)
(***************************************************************************)
\* A right-hand side whose first derivative drifts with the time argument.
lorenz_system_timed(t, state, sigma, rho, beta) ==
    LET x == state[1]
        y == state[2]
        z == state[3]
        dxdt == sigma * (y - x) + t
        dydt == x * (rho - z) - y
        dzdt == x * y - beta * z
    IN  <<dxdt, dydt, dzdt>>

\* A right-hand side with the sign of the y term of dy/dt slipped.
lorenz_system_sign(t, state, sigma, rho, beta) ==
    LET x == state[1]
        y == state[2]
        z == state[3]
        dxdt == sigma * (y - x)
        dydt == x * (rho - z) + y
        dzdt == x * y - beta * z
    IN  <<dxdt, dydt, dzdt>>

\* CODE/lorenz.py
lorenz_system_CODE(t, state, sigma, rho, beta) ==
    LET x == state[1]
        y == state[2]
        z == state[3]
        dxdt == sigma * (y - x)
        dydt == x * (rho - z) - y
        dzdt == x * y - beta * z
    IN  <<dxdt, dydt, dzdt>>

\* python/lorenz_attractor.py
lorenz_system_python(t, state, sigma, rho, beta) ==
    LET x == state[1]
        y == state[2]
        z == state[3]
        dxdt == sigma * (y - x)
        dydt == x * (rho - z) - y
        dzdt == x * y - beta * z
    IN  <<dxdt, dydt, dzdt>>

\* Inputs enumerated for lorenz_system.
Coords == (-MaxCoord)..MaxCoord
CallTimes == {0, 1, 7}
Sigmas == {10, 3}
Rhos == {28, -1}
Betas == {3, 2}

NoArgs == [t |-> 0, state |-> <<0, 0, 0>>, sigma |-> 0, rho |-> 0, beta |-> 0]
NoOut == [CODE |-> <<0, 0, 0>>, python |-> <<0, 0, 0>>]

LsInit ==
    /\ ls_pc = "idle"
    /\ ls_args = NoArgs
    /\ ls_out = NoOut

\* One call of each copy of lorenz_system on the same arguments.
CallLorenzSystem ==
    /\ ls_pc = "idle"
    /\ \E t \in CallTimes, x \in Coords, y \in Coords, z \in Coords,
          sigma \in Sigmas, rho \in Rhos, beta \in Betas :
          /\ ls_args' = [t |-> t, state |-> <<x, y, z>>,
                         sigma |-> sigma, rho |-> rho, beta |-> beta]
          /\ ls_out' = [CODE |-> lorenz_system_CODE(t, <<x, y, z>>, sigma, rho, beta),
                        python |-> lorenz_system_python(t, <<x, y, z>>, sigma, rho, beta)]
    /\ ls_pc' = "returned"
    /\ UNCHANGED <<ode_vars, pure_vars, intro_vars, scene_vars>>

(***************************************************************************)
(* Floating point.  A time is an integer number of time units (a fixed    *)
(* power of two); a float is a number whose significand fits in Precision  *)
(* bits.  Products and quotients are rounded to the nearest float, ties to *)
(* the even significand, as IEEE 754 does for the program's doubles.       *)
(***************************************************************************)
RECURSIVE BitLen(_)
BitLen(n) == IF n = 0 THEN 0 ELSE 1 + BitLen(n \div 2)

\* The float nearest to the rational a / b (a >= 0, b > 0).
RoundRat(a, b) ==
    LET e == IF BitLen(a \div b) > Precision THEN BitLen(a \div b) - Precision ELSE 0
        ulp == 2 ^ e
        lo == (a \div (b * ulp)) * ulp
        hi == lo + ulp
        d == 2 * a - (lo + hi) * b
    IN  IF d < 0 THEN lo
        ELSE IF d > 0 THEN hi
        ELSE IF (lo \div ulp) % 2 = 0 THEN lo ELSE hi

Representable(v) == RoundRat(v, 1) = v

\* k * step for an integer count k and a float step, rounded.
FloatMul(k, step) == RoundRat(k * step, 1)

\* Quotients are written in units of 1 / QuotientScale, fine enough for every
\* float that is at least 1.
QuotientScale == 2 ^ (Precision - 1)

\* stop / step as a float (stop > 0, step > 0).  A quotient below 1 rounds to
\* a positive float not above 1, written here as the smallest unit.
FloatDiv(stop, step) ==
    IF stop < step THEN 1 ELSE RoundRat(stop * QuotientScale, step)

\* math.ceil of a quotient: an integer count.
Ceil(q) == (q + QuotientScale - 1) \div QuotientScale

(***************************************************************************)
(* np.arange(0, time, dt): ceil((stop - start) / step) values, the k-th    *)
(* being start + k * step, each operation in floating point.               *)
(***************************************************************************)
arange(stop, step) ==
    [k \in 1..Ceil(FloatDiv(stop, step)) |-> FloatMul(k - 1, step)]

(***************************************************************************)
(* scipy.integrate.solve_ivp, as ode_solution_points uses it.               *)
(*                                                                         *)
(* function is the right-hand side handed in: its name and the time at     *)
(* which its solution ceases to exist (Regular when it never does, as for  *)
(* lorenz_system).  The integrator advances from one requested time to the *)
(* next; a step that would have to reach singular_at cannot be completed   *)
(* (the step size underflows) and ends the loop with status -1.  The value *)
(* of the solution started in y0, at time t, component c, is kept          *)
(* symbolically as Flow(c, y0, t); at t = 0 the dense output of the first  *)
(* step returns y0 itself.                                                 *)
(***************************************************************************)
Regular == -1

Flow(c, y0, t) == [comp |-> c, from |-> y0, at |-> t]

\* The number a symbolic value is known to equal (only at the initial time).
IsInitialValue(v) == v.at = 0
InitialValue(v) == v.from[v.comp]

CanReach(function, t) ==
    function.singular_at = Regular \/ t < function.singular_at

\* The solver loop: i requested times are already stored.
RECURSIVE SolverLoop(_, _, _, _)
SolverLoop(function, tf, t_eval, i) ==
    IF i < Len(t_eval)
    THEN IF CanReach(function, t_eval[i + 1])
         THEN SolverLoop(function, tf, t_eval, i + 1)
         ELSE [n |-> i, status |-> -1]
    ELSE IF CanReach(function, tf)
         THEN [n |-> i, status |-> 0]
         ELSE [n |-> i, status |-> -1]

\* solve_ivp(function, t_span = (0, tf), y0, t_eval): an OdeResult, or the
\* ValueError it raises for a t_eval outside t_span.
solve_ivp(function, tf, y0, t_eval) ==
    IF \E k \in DOMAIN t_eval : t_eval[k] < 0 \/ t_eval[k] > tf
    THEN [raised |-> "ValueError", t |-> <<>>, y |-> <<<<>>, <<>>, <<>>>>,
          status |-> -1, success |-> FALSE]
    ELSE LET run == SolverLoop(function, tf, t_eval, 0)
             ts == SubSeq(t_eval, 1, run.n)
         IN  [raised |-> "none",
              t |-> ts,
              y |-> [c \in 1..3 |-> [k \in 1..run.n |-> Flow(c, y0, ts[k])]],
              status |-> run.status,
              success |-> run.status >= 0]

\* solution.y returned as it is, one sequence per component.
NoTranspose(y) == y

\* solution.y.T: from one sequence per component to one row per time.
Transpose(y) ==
    [k \in 1..Len(y[1]) |-> [c \in 1..Len(y) |-> y[c][k]]]

\* The outcome of a call: the exception raised, or the value returned.  t_eval
\* and success are what the call computed on the way and does not return.
Outcome(t_eval, solution, points) ==
    IF solution.raised # "none"
    THEN [raised |-> solution.raised, t_eval |-> t_eval,
          success |-> FALSE, points |-> <<>>]
    ELSE [raised |-> "none", t_eval |-> t_eval,
          success |-> solution.success, points |-> points]

\* CODE/lorenz.py
ode_solution_points_CODE(function, state0, time, dt) ==
    LET t_eval == arange(time, dt)
        solution == solve_ivp(function, time, state0, t_eval)
    IN  Outcome(t_eval, solution, Transpose(solution.y))

\* python/lorenz_attractor.py
ode_solution_points_python(function, state0, time, dt) ==
    LET t_eval == arange(time, dt)
        solution == solve_ivp(function, time, state0, t_eval)
    IN  Outcome(t_eval, solution, Transpose(solution.y))

ode_solution_points(copy, function, state0, time, dt) ==
    IF copy = "CODE"
    THEN ode_solution_points_CODE(function, state0, time, dt)
    ELSE ode_solution_points_python(function, state0, time, dt)

\* Inputs enumerated for ode_solution_points.
Copies == {"CODE", "python"}
Durations == {v \in 1..MaxTime : Representable(v)}
Steps(T) == {v \in 1..MaxTime : Representable(v) /\ (T + v - 1) \div v <= MaxSamples}
Functions ==
    {[name |-> "lorenz_system", singular_at |-> Regular]}
    \cup {[name |-> "singular", singular_at |-> tb] : tb \in {11, 36}}
InitialStates == {<<10, 10, 10>>, <<1, 0, -2>>}

NoFunction == [name |-> "", singular_at |-> Regular]
NoOdeArgs == [copy |-> "", function |-> NoFunction, state0 |-> <<0, 0, 0>>,
              time |-> 0, dt |-> 0]
NoOdeOut == [raised |-> "none", t_eval |-> <<>>, success |-> FALSE, points |-> <<>>]

OdeInit ==
    /\ ode_pc = "idle"
    /\ ode_args = NoOdeArgs
    /\ ode_out = NoOdeOut

\* One call of ode_solution_points.
CallOdeSolutionPoints ==
    /\ ode_pc = "idle"
    /\ \E copy \in Copies, function \in Functions, state0 \in InitialStates,
          time \in Durations :
          \E dt \in Steps(time) :
              /\ ode_args' = [copy |-> copy, function |-> function,
                              state0 |-> state0, time |-> time, dt |-> dt]
              /\ ode_out' = ode_solution_points(copy, function, state0, time, dt)
    /\ ode_pc' = "returned"
    /\ UNCHANGED <<ls_vars, pure_vars, intro_vars, scene_vars>>

(***************************************************************************)
(* A caller: it owns argument lists (as construct() owns its states) and   *)
(* calls the two functions on them, in any order.                          *)
(***************************************************************************)
\* The content of the list passed as state0, once a call that stores its last
\* row into it has returned.
state0_overwritten(state0) == <<0, 0, 0>>

\* The content of the list passed as state after lorenz_system returned:
\* "x, y, z = state" reads it, no statement stores into it.
lorenz_system_leaves(state) == state

\* The content of the list passed as state0 after ode_solution_points
\* returned: it is handed to solve_ivp as y0, which copies it.
ode_solution_points_leaves(state0) == state0

\* The caller's lists.
CallerStates == <<<<10, 10, 10>>, <<10, 10, 11>>>>
InitialHeap == [states |-> CallerStates]

\* Arguments the caller passes.
PureDurations == {8}
PureStep == 4
PureFunctions == {f \in Functions : f.singular_at \in {Regular, 11}}
PureTimes == {0, 7}

PureInit ==
    /\ heap = InitialHeap
    /\ log = <<>>

\* The caller calls ode_solution_points on one of its lists.
CallerCallsOde ==
    /\ Len(log) < MaxCalls
    /\ \E n \in DOMAIN heap.states, copy \in Copies, function \in PureFunctions,
          time \in PureDurations :
          LET state0 == heap.states[n]
          IN  /\ log' = Append(log,
                     [fn |-> <<"ode_solution_points", copy>>,
                      args |-> <<function, state0, time, PureStep>>,
                      result |-> ode_solution_points(copy, function, state0,
                                                     time, PureStep).points])
              /\ heap' = [heap EXCEPT
                              !.states[n] = ode_solution_points_leaves(state0)]
    /\ UNCHANGED <<ls_vars, ode_vars, intro_vars, scene_vars>>

\* The caller calls lorenz_system on one of its lists, with the default
\* sigma and rho.
CallerCallsLorenz ==
    /\ Len(log) < MaxCalls
    /\ \E n \in DOMAIN heap.states, copy \in Copies, t \in PureTimes, beta \in {3} :
          LET state == heap.states[n]
          IN  /\ log' = Append(log,
                     [fn |-> <<"lorenz_system", copy>>,
                      args |-> <<t, state, 10, 28, beta>>,
                      result |-> IF copy = "CODE"
                                 THEN lorenz_system_CODE(t, state, 10, 28, beta)
                                 ELSE lorenz_system_python(t, state, 10, 28, beta)])
              /\ heap' = [heap EXCEPT !.states[n] = lorenz_system_leaves(state)]
    /\ UNCHANGED <<ls_vars, ode_vars, intro_vars, scene_vars>>

(***************************************************************************)
(* SCENE_intro (CODE/animatica.py and CODE/testing.py).                    *)
(***************************************************************************)
IntroFiles == {"animatica", "testing"}

FONT_NAME(file) == IF file = "animatica" THEN "Audiowide" ELSE "Noto Sans"

\* What the font step can meet: nothing, an exception of register_font (the
\* file is missing, or Pango refuses it), an exception of Text with the font.
FontEnvs ==
    {[at |-> "none", exc |-> "none"]}
    \cup {[at |-> "register_font", exc |-> e] :
              e \in {"FileNotFoundError", "AssertionError"}}
    \cup {[at |-> "Text", exc |-> e] : e \in {"ValueError", "KeyboardInterrupt"}}

\* A handler "except FileNotFoundError:".
catches_FileNotFoundError(exc) == exc = "FileNotFoundError"

\* The handler of the font step is a bare "except:".
catches(exc) == TRUE

NoText == [font |-> "", font_size |-> 0, color |-> "", placed |-> FALSE]

\* Text(CHANNEL_NAME, font=FONT_NAME, font_size=70)
TextCustom(file) ==
    [font |-> FONT_NAME(file), font_size |-> 70, color |-> "WHITE", placed |-> FALSE]

\* Text(CHANNEL_NAME, font_size=...) of the handler: the default font.
TextDefault(file) ==
    [font |-> "default", font_size |-> IF file = "animatica" THEN 55 ELSE 70,
     color |-> "WHITE", placed |-> FALSE]

Warning(file) ==
    "Warning: " \o FONT_NAME(file) \o " font not found. Using default font."

\* The statements before the font step.
EarlierSteps(file) ==
    IF file = "animatica"
    THEN <<"play(FadeIn(Rectangle))", "circle">>
    ELSE <<"add(bg_dots)", "circle">>

\* The statements after the font step, in order.
LaterSteps(file) ==
    IF file = "animatica"
    THEN <<"channel_name.set_color", "channel_name.next_to", "cursor",
           "cursor.next_to", "add(channel_name, cursor)",
           "play(GrowFromCenter, TypeWithCursor)", "play(Blink, FadeOut)",
           "remove(cursor)", "get_points_on_circle", "dots", "dot_anims",
           "play(LaggedStart(dot_anims))", "get_chords", "play(LaggedStart(chords))">>
    ELSE <<"channel_name.set_color", "channel_name.next_to",
           "play(GrowFromCenter, Write)", "get_points_on_circle", "dots",
           "dot_anims", "play(LaggedStart(dot_anims))", "play(camera.frame)",
           "get_chords", "play(LaggedStart(chords))">>

IntroIdle ==
    /\ intro_file = "animatica"
    /\ font_env = [at |-> "none", exc |-> "none"]
    /\ intro_pc = "idle"
    /\ intro_next = 1
    /\ channel_name = NoText
    /\ stdout = <<>>
    /\ intro_steps = <<>>

IntroInit ==
    /\ intro_file \in IntroFiles
    /\ font_env \in FontEnvs
    /\ intro_pc = "earlier"
    /\ intro_next = 1
    /\ channel_name = NoText
    /\ stdout = <<>>
    /\ intro_steps = <<>>

IntroUnchanged ==
    UNCHANGED <<ls_vars, ode_vars, pure_vars, scene_vars, intro_file, font_env>>

\* A statement before the font step.
IntroEarlier ==
    /\ intro_pc = "earlier"
    /\ IF intro_next < Len(EarlierSteps(intro_file))
       THEN intro_next' = intro_next + 1 /\ intro_pc' = "earlier"
       ELSE intro_next' = 1 /\ intro_pc' = "register_font"
    /\ UNCHANGED <<channel_name, stdout, intro_steps>>
    /\ IntroUnchanged

\* try: with register_font(FONT_PATH): ...
IntroRegisterFont ==
    /\ intro_pc = "register_font"
    /\ intro_pc' = IF font_env.at # "register_font" THEN "Text"
                   ELSE IF catches(font_env.exc) THEN "except" ELSE "aborted"
    /\ UNCHANGED <<intro_next, channel_name, stdout, intro_steps>>
    /\ IntroUnchanged

\* ... channel_name = Text(CHANNEL_NAME, font=FONT_NAME, font_size=70)
IntroTextCustom ==
    /\ intro_pc = "Text"
    /\ IF font_env.at # "Text"
       THEN /\ channel_name' = TextCustom(intro_file)
            /\ intro_pc' = "later"
       ELSE /\ channel_name' = channel_name
            /\ intro_pc' = IF catches(font_env.exc) THEN "except" ELSE "aborted"
    /\ UNCHANGED <<intro_next, stdout, intro_steps>>
    /\ IntroUnchanged

\* except: channel_name = Text(CHANNEL_NAME, font_size=...); print(...)
IntroExcept ==
    /\ intro_pc = "except"
    /\ channel_name' = TextDefault(intro_file)
    /\ stdout' = Append(stdout, Warning(intro_file))
    /\ intro_pc' = "later"
    /\ UNCHANGED <<intro_next, intro_steps>>
    /\ IntroUnchanged

\* A statement after the font step.
IntroLater ==
    /\ intro_pc = "later"
    /\ LET stmt == LaterSteps(intro_file)[intro_next]
       IN  /\ intro_steps' = Append(intro_steps, stmt)
           /\ channel_name' =
                  IF stmt = "channel_name.set_color"
                  THEN [channel_name EXCEPT !.color = "PRIMARY_COLOR"]
                  ELSE IF stmt = "channel_name.next_to"
                  THEN [channel_name EXCEPT !.placed = TRUE]
                  ELSE channel_name
    /\ IF intro_next < Len(LaterSteps(intro_file))
       THEN intro_next' = intro_next + 1 /\ intro_pc' = "later"
       ELSE intro_next' = intro_next /\ intro_pc' = "done"
    /\ UNCHANGED stdout
    /\ IntroUnchanged

(***************************************************************************)
(* The Lorenz scenes: LorenzAttractor (python/lorenz_attractor.py) and     *)
(* LorenzIntroToAttractor (CODE/lorenz.py).  Coordinates are written in    *)
(* thousandths, the size of epsilon.                                       *)
(***************************************************************************)
Scenes == {"LorenzAttractor", "LorenzIntroToAttractor"}

epsilon == 1

evolution_time(s) == IF s = "LorenzAttractor" THEN 30 ELSE 10

\* states = [[10, 10, 10 + n * epsilon] for n in range(4)]
InitialConditions == [n \in 1..4 |-> <<10000, 10000, 10000 + (n - 1) * epsilon>>]

\* color_gradient([BLUE, YELLOW], n): n colours, the k-th at (k - 1) / (n - 1)
\* of the way from BLUE to YELLOW.
color_gradient(n) == [k \in 1..n |-> [step |-> k - 1, of |-> n - 1]]

Min(a, b) == IF a < b THEN a ELSE b

\* The text intro of LorenzIntroToAttractor, statement by statement.
TextIntro ==
    <<"text_group", "play(LaggedStart)", "wait(0.4)", "play(Write(line1))",
      "wait(0.2)", "play(Write(line2))", "wait(0.8)", "play(ApplyMethod)",
      "play(text_group.animate)", "wait()">>

\* The attractor part with the rotation stopped before the final wait.
AttractorPart_StopsEarly ==
    <<"axes", "set_camera_orientation", "add(axes)", "states", "for zip(states, colors)",
      "spheres", "add_updater", "add(spheres)", "set_camera_orientation",
      "begin_ambient_camera_rotation", "play(Create)",
      "stop_ambient_camera_rotation", "wait(2)">>

\* The attractor part of both scenes, statement by statement.
AttractorPart ==
    <<"axes", "set_camera_orientation", "add(axes)", "states", "for zip(states, colors)",
      "spheres", "add_updater", "add(spheres)", "set_camera_orientation",
      "begin_ambient_camera_rotation", "play(Create)", "wait(2)",
      "stop_ambient_camera_rotation">>

Script(s) ==
    IF s = "LorenzAttractor" THEN AttractorPart ELSE TextIntro \o AttractorPart

Stmt == IF sc_pc <= Len(Script(scene)) THEN Script(scene)[sc_pc] ELSE "end"

\* The camera of a ThreeDScene before any call.
DefaultCamera == [phi |-> 0, theta |-> -90, gamma |-> 0, zoom |-> 100,
                  rotating |-> FALSE, turned |-> 0]

\* set_camera_orientation(phi=80 * DEGREES, theta=10 * DEGREES, zoom=0.75), and
\* in LorenzAttractor gamma=0 * DEGREES as well; zoom in hundredths.
set_camera_orientation(cam, s) ==
    IF s = "LorenzAttractor"
    THEN [cam EXCEPT !.phi = 80, !.theta = 10, !.gamma = 0, !.zoom = 75]
    ELSE [cam EXCEPT !.phi = 80, !.theta = 10, !.zoom = 75]

Orientation(cam) == <<cam.phi, cam.theta, cam.gamma, cam.zoom, cam.turned>>

ORIGIN == [from |-> <<0, 0, 0>>, shown |-> 0]

\* curve.get_end(): the last point of what is shown of the curve.
get_end(curve) == [from |-> curve.from, shown |-> curve.shown]

\* An updater that pairs each sphere with the next curve.
update_spheres_shifted(sph, crv) ==
    [k \in 1..Len(sph) |->
        IF k <= Len(crv)
        THEN [sph[k] EXCEPT !.pos = get_end(crv[(k % Len(crv)) + 1])]
        ELSE sph[k]]

\* for sphere, curve in zip(spheres.submobjects, curves):
\*     sphere.move_to(curve.get_end())
update_spheres(sph, crv) ==
    [k \in 1..Len(sph) |->
        IF k <= Len(crv)
        THEN [sph[k] EXCEPT !.pos = get_end(crv[k])]
        ELSE sph[k]]

SceneIdle ==
    /\ scene = "LorenzAttractor"
    /\ nframes = 1
    /\ sc_pc = 0
    /\ sc_phase = "idle"
    /\ sc_frame = 0
    /\ camera = DefaultCamera
    /\ states = <<>>
    /\ colors = <<>>
    /\ curves = <<>>
    /\ spheres = <<>>
    /\ has_updater = FALSE
    /\ on_scene = FALSE
    /\ updated = FALSE
    /\ events = <<>>

SceneInit ==
    /\ scene \in Scenes
    /\ nframes \in 1..MaxFrames
    /\ sc_pc = 1
    /\ sc_phase = "stmt"
    /\ sc_frame = 0
    /\ camera = DefaultCamera
    /\ states = <<>>
    /\ colors = <<>>
    /\ curves = <<>>
    /\ spheres = <<>>
    /\ has_updater = FALSE
    /\ on_scene = FALSE
    /\ updated = FALSE
    /\ events = <<>>

SceneUnchanged == UNCHANGED <<ls_vars, ode_vars, pure_vars, intro_vars, scene, nframes>>

\* A statement that touches neither the camera nor curves nor spheres.
SceneOther ==
    /\ sc_phase = "stmt"
    /\ Stmt \in {"axes", "add(axes)"} \cup {TextIntro[i] : i \in DOMAIN TextIntro}
    /\ sc_pc' = sc_pc + 1
    /\ updated' = FALSE
    /\ UNCHANGED <<sc_phase, sc_frame, camera, states, colors, curves, spheres,
                   has_updater, on_scene, events>>
    /\ SceneUnchanged

SceneSetCameraOrientation ==
    /\ sc_phase = "stmt"
    /\ Stmt = "set_camera_orientation"
    /\ camera' = set_camera_orientation(camera, scene)
    /\ events' = Append(events, [e |-> "set_camera_orientation",
                                 orientation |-> Orientation(camera'),
                                 anims |-> {}])
    /\ sc_pc' = sc_pc + 1
    /\ updated' = FALSE
    /\ UNCHANGED <<sc_phase, sc_frame, states, colors, curves, spheres, has_updater,
                   on_scene>>
    /\ SceneUnchanged

\* epsilon, states, colors, evolution_time, curves = VGroup()
SceneStates ==
    /\ sc_phase = "stmt"
    /\ Stmt = "states"
    /\ states' = InitialConditions
    /\ colors' = color_gradient(Len(InitialConditions))
    /\ curves' = <<>>
    /\ sc_pc' = sc_pc + 1
    /\ updated' = FALSE
    /\ UNCHANGED <<sc_phase, sc_frame, camera, spheres, has_updater, on_scene, events>>
    /\ SceneUnchanged

\* One turn of "for state, color in zip(states, colors)": the curve through the
\* points of ode_solution_points(lorenz_system, state, evolution_time), shown
\* in full (nframes of nframes), or the end of the loop.
SceneCurve ==
    /\ sc_phase = "stmt"
    /\ Stmt = "for zip(states, colors)"
    /\ IF Len(curves) < Min(Len(states), Len(colors))
       THEN /\ curves' = Append(curves,
                   [from |-> states[Len(curves) + 1],
                    time |-> evolution_time(scene),
                    color |-> colors[Len(curves) + 1],
                    shown |-> nframes])
            /\ sc_pc' = sc_pc
       ELSE /\ curves' = curves
            /\ sc_pc' = sc_pc + 1
    /\ updated' = FALSE
    /\ UNCHANGED <<sc_phase, sc_frame, camera, states, colors, spheres, has_updater,
                   on_scene, events>>
    /\ SceneUnchanged

\* spheres = VGroup(*[Sphere(...).set_color(color).set_opacity(0.8) for color in colors])
SceneSpheres ==
    /\ sc_phase = "stmt"
    /\ Stmt = "spheres"
    /\ spheres' = [k \in 1..Len(colors) |-> [color |-> colors[k], pos |-> ORIGIN]]
    /\ sc_pc' = sc_pc + 1
    /\ updated' = FALSE
    /\ UNCHANGED <<sc_phase, sc_frame, camera, states, colors, curves, has_updater,
                   on_scene, events>>
    /\ SceneUnchanged

\* spheres.add_updater(update_spheres)
SceneAddUpdater ==
    /\ sc_phase = "stmt"
    /\ Stmt = "add_updater"
    /\ has_updater' = TRUE
    /\ sc_pc' = sc_pc + 1
    /\ updated' = FALSE
    /\ UNCHANGED <<sc_phase, sc_frame, camera, states, colors, curves, spheres,
                   on_scene, events>>
    /\ SceneUnchanged

\* self.add(spheres)
SceneAddSpheres ==
    /\ sc_phase = "stmt"
    /\ Stmt = "add(spheres)"
    /\ on_scene' = TRUE
    /\ sc_pc' = sc_pc + 1
    /\ updated' = FALSE
    /\ UNCHANGED <<sc_phase, sc_frame, camera, states, colors, curves, spheres,
                   has_updater, events>>
    /\ SceneUnchanged

SceneBeginRotation ==
    /\ sc_phase = "stmt"
    /\ Stmt = "begin_ambient_camera_rotation"
    /\ camera' = [camera EXCEPT !.rotating = TRUE]
    /\ events' = Append(events, [e |-> "begin_ambient_camera_rotation",
                                 orientation |-> Orientation(camera),
                                 anims |-> {}])
    /\ sc_pc' = sc_pc + 1
    /\ updated' = FALSE
    /\ UNCHANGED <<sc_phase, sc_frame, states, colors, curves, spheres, has_updater,
                   on_scene>>
    /\ SceneUnchanged

SceneStopRotation ==
    /\ sc_phase = "stmt"
    /\ Stmt = "stop_ambient_camera_rotation"
    /\ camera' = [camera EXCEPT !.rotating = FALSE]
    /\ events' = Append(events, [e |-> "stop_ambient_camera_rotation",
                                 orientation |-> Orientation(camera),
                                 anims |-> {}])
    /\ sc_pc' = sc_pc + 1
    /\ updated' = FALSE
    /\ UNCHANGED <<sc_phase, sc_frame, states, colors, curves, spheres, has_updater,
                   on_scene>>
    /\ SceneUnchanged

\* self.play(*[Create(curve, run_time=evolution_time, rate_func=linear)
\*             for curve in curves]): the animations begin, nothing shown yet.
ScenePlayBegin ==
    /\ sc_phase = "stmt"
    /\ Stmt = "play(Create)"
    /\ events' = Append(events,
           [e |-> "play begins",
            orientation |-> Orientation(camera),
            anims |-> {[create |-> k, run_time |-> evolution_time(scene)] :
                          k \in DOMAIN curves}])
    /\ curves' = [k \in DOMAIN curves |-> [curves[k] EXCEPT !.shown = 0]]
    /\ sc_phase' = "animate"
    /\ sc_frame' = 1
    /\ updated' = FALSE
    /\ UNCHANGED <<sc_pc, camera, states, colors, spheres, has_updater, on_scene>>
    /\ SceneUnchanged

\* self.wait(2)
SceneWaitBegin ==
    /\ sc_phase = "stmt"
    /\ Stmt = "wait(2)"
    /\ events' = Append(events, [e |-> "wait(2) begins",
                                 orientation |-> Orientation(camera),
                                 anims |-> {}])
    /\ sc_phase' = "animate"
    /\ sc_frame' = 1
    /\ updated' = FALSE
    /\ UNCHANGED <<sc_pc, camera, states, colors, curves, spheres, has_updater, on_scene>>
    /\ SceneUnchanged

\* A frame, first half: the animations of the play are interpolated (linear:
\* frame sc_frame of nframes), the rotating camera turns.
SceneFrameAnimate ==
    /\ sc_phase = "animate"
    /\ curves' = IF Stmt = "play(Create)"
                 THEN [k \in DOMAIN curves |-> [curves[k] EXCEPT !.shown = sc_frame]]
                 ELSE curves
    /\ camera' = IF camera.rotating
                 THEN [camera EXCEPT !.turned = @ + 1]
                 ELSE camera
    /\ sc_phase' = "update"
    /\ updated' = FALSE
    /\ UNCHANGED <<sc_pc, sc_frame, states, colors, spheres, has_updater, on_scene,
                   events>>
    /\ SceneUnchanged

\* A frame, second half: the updaters of the scene's mobjects run.
SceneFrameUpdate ==
    /\ sc_phase = "update"
    /\ spheres' = IF has_updater /\ on_scene
                  THEN update_spheres(spheres, curves)
                  ELSE spheres
    /\ updated' = (has_updater /\ on_scene)
    /\ IF sc_frame < nframes
       THEN /\ sc_frame' = sc_frame + 1
            /\ sc_phase' = "animate"
       ELSE /\ sc_frame' = sc_frame
            /\ sc_phase' = "finish"
    /\ UNCHANGED <<sc_pc, camera, states, colors, curves, has_updater, on_scene, events>>
    /\ SceneUnchanged

\* The play or wait returns.
SceneFramesEnd ==
    /\ sc_phase = "finish"
    /\ events' = Append(events,
           [e |-> IF Stmt = "play(Create)" THEN "play ends" ELSE "wait(2) ends",
            orientation |-> Orientation(camera),
            anims |-> {}])
    /\ sc_phase' = "stmt"
    /\ sc_frame' = 0
    /\ sc_pc' = sc_pc + 1
    /\ UNCHANGED <<camera, states, colors, curves, spheres, has_updater, on_scene,
                   updated>>
    /\ SceneUnchanged

LorenzInit == LsInit /\ OdeInit /\ PureInit /\ IntroIdle /\ SceneIdle
LorenzNext == CallLorenzSystem
SpecLorenz == LorenzInit /\ [][LorenzNext]_vars

OdeNext == CallOdeSolutionPoints
SpecOdeInit == LsInit /\ OdeInit /\ PureInit /\ IntroIdle /\ SceneIdle
SpecOde == SpecOdeInit /\ [][OdeNext]_vars

PureNext == CallerCallsOde \/ CallerCallsLorenz
SpecPureInit == LsInit /\ OdeInit /\ PureInit /\ IntroIdle /\ SceneIdle
SpecPure == SpecPureInit /\ [][PureNext]_vars

IntroNext ==
    IntroEarlier \/ IntroRegisterFont \/ IntroTextCustom \/ IntroExcept \/ IntroLater
SpecIntroInit == LsInit /\ OdeInit /\ PureInit /\ IntroInit /\ SceneIdle
SpecIntro == SpecIntroInit /\ [][IntroNext]_vars

SceneNext ==
    \/ SceneOther
    \/ SceneSetCameraOrientation
    \/ SceneStates
    \/ SceneCurve
    \/ SceneSpheres
    \/ SceneAddUpdater
    \/ SceneAddSpheres
    \/ SceneBeginRotation
    \/ SceneStopRotation
    \/ ScenePlayBegin
    \/ SceneWaitBegin
    \/ SceneFrameAnimate
    \/ SceneFrameUpdate
    \/ SceneFramesEnd
SpecSceneInit == LsInit /\ OdeInit /\ PureInit /\ IntroIdle /\ SceneInit
SpecScene == SpecSceneInit /\ [][SceneNext]_vars

\* C1: lorenz_system returns [sigma*(y - x), x*(rho - z) - y, x*y - beta*z], in
\* that order, and the copy of CODE/lorenz.py and the copy of
\* python/lorenz_attractor.py return the same list for the same arguments.
C1_Derivatives ==
    ls_pc = "returned" =>
        LET x == ls_args.state[1]
            y == ls_args.state[2]
            z == ls_args.state[3]
            expected == <<ls_args.sigma * (y - x),
                          x * (ls_args.rho - z) - y,
                          x * y - ls_args.beta * z>>
        IN  /\ ls_out.CODE = expected
            /\ ls_out.python = expected
            /\ ls_out.CODE = ls_out.python

\* A call on the attractor's side (x, y, z all non-zero, distinct terms) returned.
C1_Witness ==
    /\ ls_pc = "returned"
    /\ ls_args.state = <<1, 2, -1>>
    /\ ls_args.sigma = 10 /\ ls_args.rho = 28 /\ ls_args.beta = 3
    /\ ls_out.CODE = <<10, 27, 5>>

\* C7: lorenz_system ignores its time argument: called at any other time t2 on
\* the same state and parameters, each copy returns what the call at t1 returned.
C7_Autonomous ==
    ls_pc = "returned" =>
        \A t2 \in CallTimes :
            /\ lorenz_system_CODE(t2, ls_args.state, ls_args.sigma,
                                  ls_args.rho, ls_args.beta) = ls_out.CODE
            /\ lorenz_system_python(t2, ls_args.state, ls_args.sigma,
                                    ls_args.rho, ls_args.beta) = ls_out.python

\* A call at a time other than 0 returned.
C7_Witness ==
    /\ ls_pc = "returned"
    /\ ls_args.t = 7
    /\ ls_args.state = <<1, 2, -1>>
    /\ ls_out.python = <<ls_args.sigma, ls_args.rho - 1, 2 + ls_args.beta>>

\* A call of ode_solution_points has returned a value.
OdeReturned == ode_pc = "returned" /\ ode_out.raised = "none"

\* C2: the requested times are exactly k*dt for k = 0, 1, 2, ... with k*dt
\* strictly less than T: T is never a requested time, none is skipped, and
\* there are ceil(T/dt) of them.
C2_SampleTimes ==
    ode_pc = "returned" =>
        LET t_eval == ode_out.t_eval
            T == ode_args.time
            dt == ode_args.dt
        IN  /\ \A k \in DOMAIN t_eval : t_eval[k] = FloatMul(k - 1, dt)
            /\ \A k \in DOMAIN t_eval : t_eval[k] < T
            /\ Len(t_eval) = (T + dt - 1) \div dt

\* C3: the result is one 3-component row per requested time, in increasing
\* time order: row k is the state of the solution started in state0 at the
\* k-th requested time k*dt, and row 0 (t = 0) equals state0.
C3_OrderedRows ==
    OdeReturned =>
        LET points == ode_out.points
            t_eval == ode_out.t_eval
            state0 == ode_args.state0
        IN  /\ Len(points) >= 1
            /\ Len(points) <= Len(t_eval)
            /\ \A k \in 1..Len(points) :
                  /\ Len(points[k]) = 3
                  /\ \A c \in 1..3 :
                        points[k][c] = Flow(c, state0, FloatMul(k - 1, ode_args.dt))
            /\ \A k \in 1..(Len(points) - 1) :
                  points[k][1].at < points[k + 1][1].at
            /\ \A c \in 1..3 :
                  /\ IsInitialValue(points[1][c])
                  /\ InitialValue(points[1][c]) = state0[c]

\* A complete result of several rows for the scenes' initial state.
C3_Witness ==
    /\ OdeReturned
    /\ ode_out.success
    /\ ode_args.state0 = <<10, 10, 10>>
    /\ Len(ode_out.points) = 4
    /\ ode_out.points[3] = [c \in 1..3 |-> Flow(c, <<10, 10, 10>>, 2 * ode_args.dt)]

\* C4: a call either returns the full sequence of samples, one per requested
\* time, or fails with an error saying that the solver did not converge; a
\* failed integration is not returned as a shorter, truncated sequence.
C4_FullOrError ==
    ode_pc = "returned" =>
        \/ ode_out.raised = "none" /\ Len(ode_out.points) = Len(ode_out.t_eval)
        \/ ode_out.raised = "non-convergence"

FellBack ==
    /\ font_env.at # "none"
    /\ intro_pc \in {"later", "done"}

\* C6: the font step of SCENE_intro falls back instead of failing: whatever
\* register_font or Text with the custom font raises, the scene is not
\* aborted, the channel name is then a Text in the default font and the
\* warning is printed, and the scene runs the same later statements
\* (colouring, positioning, animations) as when nothing is raised.
C6_FontFallback ==
    /\ intro_pc # "aborted"
    /\ FellBack =>
          /\ channel_name.font = "default"
          /\ stdout = <<Warning(intro_file)>>
    /\ (intro_pc \in {"later", "done"} /\ font_env.at = "none") =>
          /\ channel_name.font = FONT_NAME(intro_file)
          /\ stdout = <<>>
    /\ intro_pc \in {"later", "done"} =>
          intro_steps = SubSeq(LaterSteps(intro_file), 1, Len(intro_steps))
    /\ intro_pc = "done" =>
          /\ intro_steps = LaterSteps(intro_file)
          /\ channel_name.color = "PRIMARY_COLOR"
          /\ channel_name.placed

\* Text with the custom font raised and the scene of animatica.py ran to its end.
C6_Witness ==
    /\ intro_pc = "done"
    /\ intro_file = "animatica"
    /\ font_env = [at |-> "Text", exc |-> "KeyboardInterrupt"]
    /\ channel_name.font = "default"
    /\ Len(stdout) = 1

\* C8: the spheres follow the curves: four trajectories whose initial states
\* are pairwise distinct and differ only in z (x = y = 10, z = 10 + n*epsilon,
\* n = 0..3; in thousandths), one sphere per curve, of the curve's colour, and
\* after every run of the updater sphere k is at the current end of curve k
\* and at the end of no other curve.
C8_SpheresFollowCurves ==
    /\ states # <<>> =>
          /\ Len(states) = 4
          /\ \A n \in 1..4 : states[n] = <<10000, 10000, 10000 + (n - 1)>>
          /\ \A m \in 1..4 : \A n \in 1..4 : m # n => states[m] # states[n]
    /\ spheres # <<>> =>
          /\ Len(curves) = 4
          /\ \A k \in 1..4 : curves[k].from = states[k]
          /\ Len(spheres) = Len(curves)
          /\ \A k \in 1..4 : spheres[k].color = curves[k].color
    /\ updated =>
          \A k \in DOMAIN spheres :
              /\ spheres[k].pos = [from |-> states[k], shown |-> curves[k].shown]
              /\ \A j \in DOMAIN curves :
                    j # k => spheres[k].pos # [from |-> states[j],
                                               shown |-> curves[j].shown]

\* The updater has just run in the middle of the creation of the curves.
C8_Witness ==
    /\ updated
    /\ Stmt = "play(Create)"
    /\ nframes = 3
    /\ sc_frame = 3 /\ sc_phase = "animate"
    /\ spheres[4].pos = [from |-> <<10000, 10000, 10003>>, shown |-> 2]

EventsNamed(name) == {i \in DOMAIN events : events[i].e = name}

\* C9: the ambient camera rotation brackets the creation of the curves: it is
\* begun before the play that creates them, right after the camera orientation
\* has been set again to the values it was first set to; all curves are created
\* in that one play, each with run_time = evolution_time (30 in
\* LorenzAttractor, 10 in LorenzIntroToAttractor); and it is stopped only after
\* that play and the wait of 2 seconds after it have ended.
C9_RotationBrackets ==
    /\ Cardinality(EventsNamed("play begins")) <= 1
    /\ \A i \in EventsNamed("play begins") :
          /\ \E b \in EventsNamed("begin_ambient_camera_rotation") : b < i
          /\ \A st \in EventsNamed("stop_ambient_camera_rotation") : i < st
          /\ events[i].anims =
                 {[create |-> k,
                   run_time |-> IF scene = "LorenzAttractor" THEN 30 ELSE 10] :
                      k \in 1..4}
    /\ \A b \in EventsNamed("begin_ambient_camera_rotation") :
          /\ b > 2
          /\ events[b - 1].e = "set_camera_orientation"
          /\ events[b - 2].e = "set_camera_orientation"
          /\ events[b - 1].orientation = events[b - 2].orientation
          /\ events[b].orientation = events[b - 1].orientation
    /\ \A st \in EventsNamed("stop_ambient_camera_rotation") :
          \E p \in EventsNamed("play ends") : \E w \in EventsNamed("wait(2) ends") :
              p < w /\ w < st
    /\ (sc_phase # "stmt" /\ Stmt \in {"play(Create)", "wait(2)"}) => camera.rotating

\* The rotation was stopped at the end of LorenzAttractor, having turned in
\* every frame of the play and of the wait.
C9_Witness ==
    /\ scene = "LorenzAttractor"
    /\ nframes = 3
    /\ Stmt = "end"
    /\ ~camera.rotating
    /\ camera.turned = 6
    /\ events[Len(events)].e = "stop_ambient_camera_rotation"

====
